---- MODULE Spec2Model ----
(***************************************************************************)
(* Subgradient methods for the Lagrangian dual of set-covering problems:   *)
(* the spectral projected subgradient driver and Beasley's basic driver of *)
(* src/subgradient.c, with the static instance and result store they       *)
(* share.                                                                  *)
(*                                                                         *)
(* Numbers.  A C double is modelled as a fixed-point number: an integer    *)
(* count of quanta, Scale quanta to 1.0.  Sums and differences are exact;  *)
(* a product or quotient is rounded once, downwards, to the grid.  The two *)
(* tolerances of the source are kept as grid values in their source order  *)
(* 0 < 1e-14 < 1e-12: TINY is one quantum, so that x < TINY is x <= 0 on   *)
(* the grid, and ZERO_TOL is two quanta, so that, as for doubles, there    *)
(* are representable non-zero changes within the tolerance.  The powers of *)
(* two tau and lambda are kept by their exponent.                          *)
(***************************************************************************)
EXTENDS Integers, Sequences, FiniteSets, TLC

Scale == 1000

\* #define ZERO_TOL pow(10, -12)
ZERO_TOL == 2

\* the literal pow(10,-14) of the two subgradient routines
TINY == 1

\* const int M = 10: length of the window of past objective values
M == 10

\* const int counter_limit = 10
counter_limit == 10

MaxCost == 3

MaxItr == 37

MaxUpperbound == 2

MaxHalvings == 12

Rows == {1, 2}

Cols == {1, 2, 3}

\* content of a cell of a malloc'ed array that was never written
UNINIT == -999999

\* what a read of such a cell may yield
Garbage == {-5, 31337}

\* IEEE +infinity: eta_not / pow(0, 1.1) in the first iteration
INFTY == 1000000000

VARIABLES
    costs, col_wise,            \* the loaded instance
    max_itr, upperbound,        \* the arguments of the call
    pc, itr,
    dual1, dual2, curr_dual, old_dual, best_dual,
    reduced_costs, curr_obj, best_obj,
    subg1, subg2, momentum, dd, dd_idx,
    alpha, eta_not, eta, tau, accept, product, sub_obj, is_opt,
    past_objs, worst_obj, worst_obj_idx,
    subg, counter, lambda, norm,
    best_dual_copy, ret,
    held                        \* history: the dual vectors the run has held

vars == <<costs, col_wise, max_itr, upperbound, pc, itr,
          dual1, dual2, curr_dual, old_dual, best_dual,
          reduced_costs, curr_obj, best_obj,
          subg1, subg2, momentum, dd, dd_idx,
          alpha, eta_not, eta, tau, accept, product, sub_obj, is_opt,
          past_objs, worst_obj, worst_obj_idx,
          subg, counter, lambda, norm,
          best_dual_copy, ret, held>>

instVars == <<costs, col_wise, max_itr, upperbound>>
spsVars == <<subg1, subg2, momentum, dd, dd_idx, alpha, eta_not, eta, tau,
             accept, product, sub_obj, is_opt, past_objs, worst_obj,
             worst_obj_idx>>
basicVars == <<subg, counter, lambda, norm>>

----------------------------------------------------------------------------
(* arithmetic helpers *)

Max(a, b) == IF a < b THEN b ELSE a

RECURSIVE Pow2(_)
Pow2(k) == IF k = 0 THEN 1 ELSE 2 * Pow2(k - 1)

RECURSIVE SumOver(_, _)
SumOver(f, S) ==
    IF S = {} THEN 0
    ELSE LET x == CHOOSE y \in S : TRUE
         IN  f[x] + SumOver(f, S \ {x})

MinOf(S) == CHOOSE x \in S : \A y \in S : x <= y

\* the squares of the entries of a subgradient vector sum to at most this
MaxNormSq == Cardinality(Rows) * Cardinality(Cols) * Cardinality(Cols)

\* sqrt() of the integers up to MaxNormSq, as grid values
SqrtTable ==
    [n \in 0..MaxNormSq |->
        CHOOSE r \in 0..(Scale * n) :
            r * r <= n * Scale * Scale /\ (r + 1) * (r + 1) > n * Scale * Scale]

\* sqrt() of an integer, as a grid value
Sqrt(n) == SqrtTable[n]

\* pow(itr, 1.1) for itr >= 1, in thousandths
Pow11Milli == <<1000, 2143, 3348, 4594, 5873, 7177, 8503, 9849, 11211, 12589,
                13980, 15385, 16801, 18228, 19665, 21112, 22568, 24032, 25505,
                26985, 28473, 29968, 31470, 32978, 34493, 36013, 37540, 39072,
                40610, 42153, 43701, 45254, 46812, 48375, 49943, 51514, 53091,
                54671, 56256, 57845, 59437, 61034, 62634, 64238, 65846, 67458,
                69072, 70691>>

Pow11(i) == (Pow11Milli[i] * Scale) \div 1000

C4_NoProjection(v) == v

\* if (value < 0) value = 0
Project(v) == Max(0, v)

\* value < - ZERO_TOL || value > ZERO_TOL
NonZero(value) == value < -ZERO_TOL \/ value > ZERO_TOL

----------------------------------------------------------------------------
(* the instance *)

row_wise(i) == {c \in Cols : i \in col_wise[c]}

col_sizes(c) == Cardinality(col_wise[c])

Deref(p) == IF p = "dual1" THEN dual1 ELSE dual2

----------------------------------------------------------------------------
(* init_dual_vector *)

C7_InitDualWholeCost ==
    [i \in Rows |-> MinOf({costs[c] * Scale : c \in row_wise(i)})]

\* lines 193-204: dual_j = min (cost_i / size_i) for each col i in row j
InitDual ==
    [i \in Rows |->
        LET first == CHOOSE c \in row_wise(i) : \A d \in row_wise(i) : c <= d
        IN  MinOf({costs[first] * Scale}
                  \cup {(costs[c] * Scale) \div col_sizes(c) : c \in row_wise(i)})]

ReducedCostsOf(dual) ==
    [c \in Cols |-> costs[c] * Scale - SumOver(dual, col_wise[c])]

\* the objective loops: the sum of the duals plus the negative reduced costs
NegativePart(rc) == SumOver(rc, {c \in Cols : rc[c] < 0})

Objective(dual, rc) == SumOver(dual, Rows) + NegativePart(rc)

----------------------------------------------------------------------------
(* compute_subg_vector_sps *)

\* lines 230-236: every column with reduced cost below 1e-14 takes one off
\* each of its rows
RECURSIVE DecrementLoop(_, _, _)
DecrementLoop(sg, rc, todo) ==
    IF todo = {} THEN sg
    ELSE LET c == MinOf(todo)
         IN  DecrementLoop(IF rc[c] < TINY
                           THEN [i \in Rows |-> IF i \in col_wise[c] THEN sg[i] - 1
                                                                      ELSE sg[i]]
                           ELSE sg,
                           rc, todo \ {c})

C9_SubgCountsNonNegative(rc) ==
    [i \in Rows |-> 1 - Cardinality({c \in row_wise(i) : rc[c] >= TINY})]

SubgVector(rc) == DecrementLoop([i \in Rows |-> 1], rc, Cols)

IsZeroVector(sg) == \A i \in Rows : sg[i] = 0

----------------------------------------------------------------------------
ColTypes == [rows : (SUBSET Rows) \ {{}}, cost : 0..MaxCost]

RowsCode(S) == SumOver([i \in Rows |-> Pow2(i - 1)], S)

ColKey(t) == RowsCode(t.rows) * (MaxCost + 1) + t.cost

\* instances up to the order of their columns, every row covered
Instances ==
    {f \in [Cols -> ColTypes] :
        /\ \A c, d \in Cols : c < d => ColKey(f[c]) <= ColKey(f[d])
        /\ \A i \in Rows : \E c \in Cols : i \in f[c].rows}

Init ==
    /\ \E f \in Instances :
         /\ costs = [c \in Cols |-> f[c].cost]
         /\ col_wise = [c \in Cols |-> f[c].rows]
    /\ max_itr \in {0, 1, MaxItr}
    /\ \/ pc = "sps_start" /\ upperbound = 0
       \/ pc = "basic_start" /\ upperbound \in 1..MaxUpperbound
    /\ itr = 0
    /\ dual1 = [i \in Rows |-> UNINIT]
    /\ dual2 = [i \in Rows |-> UNINIT]
    /\ curr_dual = "dual1" /\ old_dual = "dual1" /\ best_dual = "dual2"
    /\ reduced_costs = [c \in Cols |-> UNINIT]
    /\ curr_obj = UNINIT /\ best_obj = UNINIT
    /\ subg1 = [i \in Rows |-> UNINIT]
    /\ subg2 = [i \in Rows |-> UNINIT]
    /\ momentum = [i \in Rows |-> 0]
    /\ dd = [i \in Rows |-> UNINIT]
    /\ dd_idx = {}
    /\ alpha = UNINIT /\ eta_not = UNINIT /\ eta = UNINIT /\ tau = 0
    /\ accept = UNINIT /\ product = UNINIT /\ sub_obj = UNINIT
    /\ is_opt = FALSE
    /\ past_objs = [j \in 0..(M - 1) |-> UNINIT]
    /\ worst_obj = UNINIT /\ worst_obj_idx = 0
    /\ subg = [i \in Rows |-> UNINIT]
    /\ counter = 0 /\ lambda = 0 /\ norm = 0
    /\ best_dual_copy = [i \in Rows |-> UNINIT]
    /\ ret = UNINIT
    /\ held = {}

----------------------------------------------------------------------------
(* spectral_projected_subgradient *)

\* lines 278-295: init data, the first subgradient, eta_not, alpha
SpsInit ==
    /\ pc = "sps_start"
    /\ LET d  == InitDual
           rc == ReducedCostsOf(d)
           sg == SubgVector(rc)
       IN  /\ dual1' = d
           /\ curr_dual' = "dual1" /\ old_dual' = "dual1" /\ best_dual' = "dual2"
           /\ reduced_costs' = rc
           /\ curr_obj' = SumOver(d, Rows)
           /\ best_obj' = SumOver(d, Rows)
           /\ worst_obj' = SumOver(d, Rows)
           /\ past_objs' = [past_objs EXCEPT ![0] = SumOver(d, Rows)]
           /\ worst_obj_idx' = 0
           /\ subg1' = sg
           /\ is_opt' = IsZeroVector(sg)
           /\ IF IsZeroVector(sg)
              THEN /\ pc' = "sps_cleanup"
                   /\ UNCHANGED <<eta_not, alpha>>
              ELSE /\ pc' = "sps_loop"
                   /\ eta_not' = Sqrt(SumOver([i \in Rows |-> sg[i] * sg[i]], Rows))
                   /\ alpha' = Scale \div 10
           /\ held' = {d}
    /\ UNCHANGED <<instVars, itr, dual2, subg2, momentum, dd, dd_idx, eta, tau,
                   accept, product, sub_obj, basicVars, best_dual_copy, ret>>

C6_GammaProduct(k, p) == p \div 10

\* worst_obj + gamma * tau * product + eta
C12_AcceptLevelAboveWindow(k, p, e) ==
    IF e = INFTY THEN -INFTY ELSE worst_obj + (p \div 10) \div Pow2(k) + e

\* gamma * tau * product, gamma = 0.1 and tau = 2^-k
GammaTauProduct(k, p) == (p \div 10) \div Pow2(k)

\* eta = eta_not / pow(itr, 1.1)
Eta(i) == IF i = 0 THEN INFTY ELSE (eta_not * Scale) \div Pow11(i)

\* worst_obj + gamma * tau * product - eta
AcceptLevel(k, p, e) ==
    IF e = INFTY THEN -INFTY ELSE worst_obj + GammaTauProduct(k, p) - e

\* lines 297-349: the momentum step, the projected update and its objective
SpsStep ==
    /\ pc = "sps_loop"
    /\ itr < max_itr
    /\ LET old_subg == IF itr % 2 = 0 THEN subg1 ELSE subg2
           old      == Deref(old_dual)
           mom      == [i \in Rows |-> alpha * old_subg[i] + (7 * momentum[i]) \div 10]
           value    == [i \in Rows |-> Project(old[i] + mom[i]) - old[i]]
           changed  == {i \in Rows : NonZero(value[i])}
           new      == [i \in Rows |-> IF i \in changed THEN old[i] + value[i]
                                                        ELSE old[i]]
           rc       == [c \in Cols |->
                          reduced_costs[c] - SumOver(value, col_wise[c] \cap changed)]
           prod     == SumOver([i \in Rows |-> value[i] * mom[i]], changed) \div alpha
       IN  /\ momentum' = mom
           /\ dd' = [i \in Rows |-> IF i \in changed THEN value[i] ELSE dd[i]]
           /\ dd_idx' = changed
           /\ dual1' = IF curr_dual = "dual1" THEN new ELSE dual1
           /\ dual2' = IF curr_dual = "dual2" THEN new ELSE dual2
           /\ reduced_costs' = rc
           /\ sub_obj' = SumOver(new, Rows)
           /\ curr_obj' = SumOver(new, Rows) + NegativePart(rc)
           /\ product' = prod
           /\ tau' = 0
           /\ eta' = Eta(itr)
           /\ accept' = AcceptLevel(0, prod, Eta(itr))
    /\ pc' = "sps_search"
    /\ UNCHANGED <<instVars, itr, curr_dual, old_dual, best_dual, best_obj,
                   subg1, subg2, alpha, eta_not, is_opt, past_objs, worst_obj,
                   worst_obj_idx, basicVars, best_dual_copy, ret, held>>

\* lines 350-372: one pass of the line search loop
SpsBacktrack ==
    /\ pc = "sps_search"
    /\ curr_obj < accept
    /\ tau < MaxHalvings
    /\ LET k     == tau + 1
           value == [i \in Rows |-> IF i \in dd_idx THEN dd[i] \div Pow2(k) ELSE 0]
           moved == {i \in dd_idx : NonZero(value[i])}
           cur   == Deref(curr_dual)
           new   == [i \in Rows |-> IF i \in moved THEN cur[i] - value[i] ELSE cur[i]]
           rc    == [c \in Cols |->
                       reduced_costs[c] + SumOver(value, col_wise[c] \cap moved)]
       IN  /\ tau' = k
           /\ dual1' = IF curr_dual = "dual1" THEN new ELSE dual1
           /\ dual2' = IF curr_dual = "dual2" THEN new ELSE dual2
           /\ sub_obj' = sub_obj - SumOver(value, moved)
           /\ reduced_costs' = rc
           /\ curr_obj' = sub_obj - SumOver(value, moved) + NegativePart(rc)
           /\ accept' = IF accept = -INFTY THEN accept
                        ELSE accept - GammaTauProduct(k, product)
    /\ UNCHANGED <<instVars, pc, itr, curr_dual, old_dual, best_dual, best_obj,
                   subg1, subg2, momentum, dd, dd_idx, alpha, eta_not, eta,
                   product, is_opt, past_objs, worst_obj, worst_obj_idx,
                   basicVars, best_dual_copy, ret, held>>

\* lines 391-405: alpha = tau * (dd . dd) / (dd . (old_subg - curr_subg))
SpectralStep(old_subg, curr_subg) ==
    LET num  == SumOver([i \in Rows |-> dd[i] * dd[i]], dd_idx)
        deno == SumOver([i \in Rows |-> dd[i] * (old_subg[i] - curr_subg[i])], dd_idx)
    IN  IF deno < ZERO_TOL THEN Scale \div 10
        ELSE Max(1, (num \div Pow2(tau)) \div deno)

\* lines 408-426: the window of the last M objective values and its minimum
RECURSIVE Scan(_, _, _, _)
Scan(objs, j, w, idx) ==
    IF j < 0 THEN <<w, idx>>
    ELSE IF objs[j] < w THEN Scan(objs, j - 1, objs[j], j)
         ELSE Scan(objs, j - 1, w, idx)

C10_UpdateWorstNoScan(objs, i) ==
    IF i = worst_obj_idx
    THEN IF curr_obj <= worst_obj THEN <<curr_obj, worst_obj_idx>>
         ELSE <<worst_obj, worst_obj_idx>>
    ELSE IF curr_obj < worst_obj THEN <<curr_obj, i>>
         ELSE <<worst_obj, worst_obj_idx>>

UpdateWorst(objs, i) ==
    IF i = worst_obj_idx
    THEN IF curr_obj <= worst_obj THEN <<curr_obj, worst_obj_idx>>
         ELSE Scan(objs, M - 1, curr_obj, worst_obj_idx)
    ELSE IF curr_obj < worst_obj THEN <<curr_obj, i>>
         ELSE <<worst_obj, worst_obj_idx>>

\* lines 374-427: best solution, subgradient, alpha, window
SpsAccept ==
    /\ pc = "sps_search"
    /\ ~(curr_obj < accept)
    /\ LET old_subg  == IF itr % 2 = 0 THEN subg1 ELSE subg2
           curr_subg == SubgVector(reduced_costs)
           i         == (itr + 1) % M
           objs      == [past_objs EXCEPT ![i] = curr_obj]
       IN  /\ IF best_obj < curr_obj
              THEN /\ best_obj' = curr_obj
                   /\ old_dual' = curr_dual
                   /\ curr_dual' = best_dual
                   /\ best_dual' = curr_dual
              ELSE /\ old_dual' = curr_dual
                   /\ UNCHANGED <<best_obj, curr_dual, best_dual>>
           /\ subg1' = IF itr % 2 = 0 THEN subg1 ELSE curr_subg
           /\ subg2' = IF itr % 2 = 0 THEN curr_subg ELSE subg2
           /\ is_opt' = IsZeroVector(curr_subg)
           /\ IF IsZeroVector(curr_subg)
              THEN /\ pc' = "sps_cleanup"
                   /\ UNCHANGED <<itr, alpha, past_objs, worst_obj, worst_obj_idx>>
              ELSE /\ pc' = "sps_loop"
                   /\ itr' = itr + 1
                   /\ alpha' = SpectralStep(old_subg, curr_subg)
                   /\ past_objs' = objs
                   /\ worst_obj' = UpdateWorst(objs, i)[1]
                   /\ worst_obj_idx' = UpdateWorst(objs, i)[2]
           /\ held' = held \cup {Deref(curr_dual)}
    /\ UNCHANGED <<instVars, dual1, dual2, reduced_costs, curr_obj, momentum, dd,
                   dd_idx, eta_not, eta, tau, accept, product, sub_obj,
                   basicVars, best_dual_copy, ret>>

C8_FinalObjCurrent(opt) == curr_obj

\* lines 431-434 and 448, 582-585 and 594: the value returned
FinalObj(opt) == IF opt THEN curr_obj ELSE best_obj

\* memcpy(best_dual_copy, best_dual, ...): a cell never written reads as garbage
Memcpy(buf, g) == [i \in Rows |-> IF buf[i] = UNINIT THEN g ELSE buf[i]]

\* lines 430-448
SpsCleanup ==
    /\ \/ pc = "sps_cleanup"
       \/ pc = "sps_loop" /\ ~(itr < max_itr)
    /\ best_dual' = IF is_opt THEN curr_dual ELSE best_dual
    /\ best_obj' = FinalObj(is_opt)
    /\ \E g \in Garbage :
         best_dual_copy' = Memcpy(Deref(IF is_opt THEN curr_dual ELSE best_dual), g)
    /\ ret' = FinalObj(is_opt)
    /\ pc' = "done"
    /\ UNCHANGED <<instVars, itr, dual1, dual2, curr_dual, old_dual,
                   reduced_costs, curr_obj, spsVars, basicVars, held>>

----------------------------------------------------------------------------
(* compute_subg_vector_basic *)

\* lines 475-485: rows with subg < 0 and dual < 1e-14 are set to 0
ClampedSubg(rc, dual) ==
    [i \in Rows |-> IF SubgVector(rc)[i] < 0 /\ dual[i] < TINY THEN 0
                    ELSE SubgVector(rc)[i]]

\* lines 473-492: the value returned
SubgNormBasic(rc, dual) ==
    LET sg == ClampedSubg(rc, dual)
        n  == SumOver([i \in Rows |-> sg[i] * sg[i]], Rows)
    IN  IF IsZeroVector(SubgVector(rc)) THEN -1
        ELSE IF n = 0 THEN 1 ELSE n

----------------------------------------------------------------------------
(* basic_subgradient *)

\* lines 518-526
BasicInit ==
    /\ pc = "basic_start"
    /\ LET d == InitDual
       IN  /\ dual1' = d
           /\ curr_dual' = "dual1" /\ old_dual' = "dual1" /\ best_dual' = "dual2"
           /\ reduced_costs' = ReducedCostsOf(d)
           /\ curr_obj' = SumOver(d, Rows)
           /\ best_obj' = SumOver(d, Rows)
           /\ held' = {d}
    /\ itr' = 0 /\ counter' = 0 /\ norm' = 0
    /\ lambda' = 0
    /\ pc' = "basic_loop"
    /\ UNCHANGED <<instVars, dual2, spsVars, subg, best_dual_copy, ret>>

\* step_size = lambda * (1.05 * upperbound - curr_obj) / norm, lambda = 2 * 2^-h
StepSize(h, n) ==
    ((2 * ((105 * upperbound * Scale) \div 100 - curr_obj)) \div Pow2(h)) \div n

C11_StalledAtLimit(c) == c >= counter_limit

\* line 575: if (counter > counter_limit)
Stalled(c) == c > counter_limit

\* lines 527-579: one pass of the loop
BasicIter ==
    /\ pc = "basic_loop"
    /\ itr < max_itr
    /\ LET old  == Deref(old_dual)
           n    == SubgNormBasic(reduced_costs, old)
           sg   == ClampedSubg(reduced_costs, old)
           step == StepSize(lambda, n)
           new  == [i \in Rows |-> Project(old[i] + step * sg[i])]
           value == [i \in Rows |-> new[i] - old[i]]
           rc   == [c \in Cols |->
                      reduced_costs[c]
                      - SumOver(value, {i \in col_wise[c] : NonZero(value[i])})]
           obj  == SumOver(new, Rows) + NegativePart(rc)
       IN  /\ subg' = sg
           /\ norm' = n
           /\ IF n < 0
              THEN /\ pc' = "basic_cleanup"
                   /\ UNCHANGED <<itr, dual1, dual2, reduced_costs, curr_obj,
                                  best_obj, curr_dual, old_dual, best_dual,
                                  counter, lambda, held>>
              ELSE /\ pc' = "basic_loop"
                   /\ itr' = itr + 1
                   /\ dual1' = IF curr_dual = "dual1" THEN new ELSE dual1
                   /\ dual2' = IF curr_dual = "dual2" THEN new ELSE dual2
                   /\ reduced_costs' = rc
                   /\ curr_obj' = obj
                   /\ held' = held \cup {new}
                   /\ IF best_obj < obj
                      THEN /\ best_obj' = obj
                           /\ old_dual' = curr_dual
                           /\ curr_dual' = best_dual
                           /\ best_dual' = curr_dual
                           /\ counter' = 0
                           /\ lambda' = lambda
                      ELSE /\ old_dual' = curr_dual
                           /\ UNCHANGED <<best_obj, curr_dual, best_dual>>
                           /\ counter' = IF Stalled(counter + 1) THEN 0
                                         ELSE counter + 1
                           /\ lambda' = IF Stalled(counter + 1)
                                        THEN lambda + 1 ELSE lambda
    /\ UNCHANGED <<instVars, spsVars, best_dual_copy, ret>>

\* lines 582-594
BasicCleanup ==
    /\ \/ pc = "basic_cleanup"
       \/ pc = "basic_loop" /\ ~(itr < max_itr)
    /\ best_dual' = IF norm < 0 THEN curr_dual ELSE best_dual
    /\ best_obj' = FinalObj(norm < 0)
    /\ \E g \in Garbage :
         best_dual_copy' = Memcpy(Deref(IF norm < 0 THEN curr_dual ELSE best_dual), g)
    /\ ret' = FinalObj(norm < 0)
    /\ pc' = "done"
    /\ UNCHANGED <<instVars, itr, dual1, dual2, curr_dual, old_dual,
                   reduced_costs, curr_obj, spsVars, basicVars, held>>

Next ==
    \/ SpsInit \/ SpsStep \/ SpsBacktrack \/ SpsAccept \/ SpsCleanup
    \/ BasicInit \/ BasicIter \/ BasicCleanup

Spec == Init /\ [][Next]_vars

\* a call of the SPS driver runs in one thread without suspension points:
\* while a statement of it is left to execute, it is executed
FairSpec ==
    Spec /\ WF_vars(SpsInit \/ SpsStep \/ SpsBacktrack \/ SpsAccept \/ SpsCleanup)

----------------------------------------------------------------------------
(* what the claims speak of *)

\* the dual iterate the driver currently works on
CurrentIterate == IF pc = "sps_search" THEN Deref(curr_dual) ELSE Deref(old_dual)

Started == pc \notin {"sps_start", "basic_start"}

EndedByLimit == pc = "done" /\ ~is_opt /\ ~(norm < 0)

EndedByOptimality == pc = "done" /\ (is_opt \/ norm < 0)

\* the vector the last call of compute_subg_vector_sps wrote
LastSubgSps == IF pc = "sps_cleanup" /\ itr % 2 = 0 /\ subg2[1] # UNINIT THEN subg2
               ELSE IF pc = "sps_cleanup" THEN subg1
               ELSE IF itr % 2 = 0 THEN subg1 ELSE subg2

LagrangianOf(dual) == Objective(dual, ReducedCostsOf(dual))

(* C1: when a run ends at the iteration limit, the vector in the result    *)
(* store is a dual vector the run held and its Lagrangian objective is the *)
(* value returned.                                                         *)
C1_Original ==
    EndedByLimit => /\ best_dual_copy \in held
                    /\ LagrangianOf(best_dual_copy) = ret

(* C2: when a run ends on the optimality signal, the vector in the result  *)
(* store is the final dual iterate and the value returned is its           *)
(* objective.                                                              *)
C2_Original ==
    EndedByOptimality => /\ best_dual_copy = Deref(old_dual)
                         /\ ret = LagrangianOf(Deref(old_dual))

(* C3: optimality is reported exactly when the subgradient vector left in  *)
(* subg is the zero vector; for the basic driver, the vector after the     *)
(* clamping.                                                               *)
C3_Original ==
    /\ pc \in {"sps_loop", "sps_cleanup"} => (is_opt <=> IsZeroVector(LastSubgSps))
    /\ (pc \in {"basic_loop", "basic_cleanup"} /\ (itr > 0 \/ pc = "basic_cleanup"))
         => ((norm < 0) <=> IsZeroVector(subg))

(* C4: every component of the current dual iterate is >= 0 after the       *)
(* initialization, after every projected update and after every            *)
(* backtracking step of the line search.                                   *)
C4_DualNonNegative ==
    Started => \A i \in Rows : CurrentIterate[i] >= 0

\* a line-search state after a halving in which a row pushed downwards by its
\* momentum sits on the bound 0
C4_Witness ==
    /\ pc = "sps_search" /\ tau > 0
    /\ \E i \in Rows : momentum[i] < 0 /\ Deref(curr_dual)[i] = 0

(* C5: the incrementally maintained reduced costs are those recomputed     *)
(* from the current dual iterate, also for changes within ZERO_TOL.        *)
C5_Original ==
    Started => reduced_costs = ReducedCostsOf(CurrentIterate)

(* C6: during the line search accept is worst_obj + gamma*tau*(product /   *)
(* alpha) - eta for the current tau, up to one rounding per halving, and   *)
(* the objective accepted at the exit is not below that level.             *)
C6_Level ==
    IF itr = 0 THEN -INFTY
    ELSE worst_obj
         + ((SumOver([i \in Rows |-> dd[i] * momentum[i]], dd_idx) \div alpha) \div 10)
              \div Pow2(tau)
         - (eta_not * Scale) \div Pow11(itr)

C6_LineSearchAcceptance ==
    pc = "sps_search" =>
        /\ accept - C6_Level \in 0..tau
        /\ ~(curr_obj < accept) => curr_obj >= C6_Level

C6_Witness ==
    pc = "sps_search" /\ tau > 0 /\ ~(curr_obj < accept) /\ product > 20

(* C7: with non-negative costs init_dual_vector sets dual[row] to the      *)
(* least cost[col]/colSize[col] over the row's columns (rounded down to    *)
(* the grid), leaves every reduced cost >= 0 and returns the Lagrangian    *)
(* objective of that vector.                                               *)
C7_AfterInit == pc \in {"sps_loop", "sps_cleanup", "basic_loop"} /\ itr = 0
                /\ subg2[1] = UNINIT /\ norm = 0

C7_InitFeasible ==
    C7_AfterInit =>
        /\ \A i \in Rows :
              /\ \A c \in row_wise(i) : dual1[i] * col_sizes(c) <= costs[c] * Scale
              /\ \E c \in row_wise(i) :
                    costs[c] * Scale - dual1[i] * col_sizes(c) < col_sizes(c)
        /\ \A c \in Cols : reduced_costs[c] >= 0
        /\ \A c \in Cols :
              reduced_costs[c] = costs[c] * Scale - SumOver(dual1, col_wise[c])
        /\ curr_obj = LagrangianOf(dual1)

C7_Witness ==
    /\ C7_AfterInit
    /\ \E i \in Rows : dual1[i] % Scale # 0
    /\ \E c \in Cols : reduced_costs[c] > 0

(* C8: the value returned on normal completion is never negative.          *)
C8_ReturnNonNegative == pc = "done" => ret >= 0

C8_Witness == pc = "done" /\ ret >= 0 /\ curr_obj < 0

(* C9: the subgradient of the SPS driver is, for every row, 1 minus the    *)
(* number of the row's columns whose reduced cost is >= 1e-14.             *)
C9_Original ==
    pc \in {"sps_loop", "sps_cleanup"} =>
        \A i \in Rows :
            LastSubgSps[i]
              = 1 - Cardinality({c \in row_wise(i) : reduced_costs[c] >= TINY})

(* C9 as amended: 1 minus the number of the row's columns whose reduced    *)
(* cost is below 1e-14.                                                    *)
C9_CountsBelowTiny ==
    pc \in {"sps_loop", "sps_cleanup"} =>
        \A i \in Rows :
            LastSubgSps[i]
              = 1 - Cardinality({c \in Cols : i \in col_wise[c]
                                              /\ reduced_costs[c] < TINY})

C9_Witness ==
    /\ pc = "sps_loop" /\ itr > 0
    /\ \E i \in Rows : LastSubgSps[i] < 0
    /\ \E c \in Cols : reduced_costs[c] >= TINY

(* C10: at the start of every iteration worst_obj is the minimum of the    *)
(* slots of past_objs written so far, past_objs[worst_obj_idx] is          *)
(* worst_obj, the last accepted objective is in slot itr mod M (the        *)
(* initial one in slot 0 until the buffer wraps), and the full scan reads  *)
(* written slots only.                                                     *)
C10_WrittenSlots == {j \in 0..(M - 1) : j <= itr}

C10_WorstOfWindow ==
    /\ pc = "sps_loop" =>
          /\ worst_obj = MinOf({past_objs[j] : j \in C10_WrittenSlots})
          /\ worst_obj_idx \in C10_WrittenSlots
          /\ past_objs[worst_obj_idx] = worst_obj
          /\ past_objs[itr % M] = curr_obj
          /\ itr < M => past_objs[0] = SumOver(InitDual, Rows)
          /\ \A j \in 0..(M - 1) : j \in C10_WrittenSlots <=> past_objs[j] # UNINIT
    /\ (pc = "sps_search" /\ (itr + 1) % M = worst_obj_idx) =>
          \A j \in 0..(M - 1) : j # worst_obj_idx => past_objs[j] # UNINIT

C10_Witness ==
    /\ pc = "sps_loop" /\ itr > M
    /\ worst_obj_idx # 0
    /\ \E j \in 0..(M - 1) : past_objs[j] > worst_obj

\* one pass of the loop of the basic driver that did not break
BasicPass == pc = "basic_loop" /\ pc' = "basic_loop" /\ itr' = itr + 1

C11_Range ==
    pc = "basic_loop" => /\ counter \in 0..counter_limit
                         /\ lambda >= 0
                         /\ itr = 0 => counter = 0 /\ lambda = 0

C11_Step ==
    /\ BasicPass /\ best_obj < curr_obj'
         => counter' = 0 /\ lambda' = lambda
    /\ BasicPass /\ ~(best_obj < curr_obj') /\ counter < counter_limit
         => counter' = counter + 1 /\ lambda' = lambda
    /\ BasicPass /\ ~(best_obj < curr_obj') /\ counter = counter_limit
         => counter' = 0 /\ lambda' = lambda + 1
    /\ pc \in {"basic_loop", "basic_cleanup", "done"} /\ ~BasicPass
         => counter' = counter /\ lambda' = lambda

(* C11: in the basic driver counter is 0 after a pass that strictly         *)
(* improved the best objective and one more after any other pass, except    *)
(* that the pass that would take it above counter_limit (the 11th           *)
(* non-improving pass in a row) halves lambda and resets it to 0; lambda    *)
(* is 2.0 before the first pass and changes in no other step, and at the    *)
(* start of every pass counter is in 0..counter_limit.                      *)
C11_CounterAndLambda == [](C11_Range) /\ [][C11_Step]_vars

\* lambda was halved twice and non-improving passes are being counted again
C11_Witness == pc = "basic_loop" /\ lambda = 2 /\ counter > 0

InSps == pc \in {"sps_start", "sps_loop", "sps_search", "sps_cleanup"}

\* what the termination of the line search rests on
C12_Grounds ==
    pc = "sps_search" => /\ past_objs[itr % M] >= worst_obj
                         /\ alpha > 0
                         /\ product >= 0
                         /\ eta > 0
                         /\ curr_obj < accept => tau < MaxHalvings

(* C12: in every iteration of the SPS driver the objective of the previous *)
(* accepted iterate is in the window and so >= worst_obj, alpha > 0,       *)
(* product/alpha >= 0 and eta > 0; a rejected step is always followed by   *)
(* another halving that the number model can represent, every line search  *)
(* ends with an accepted step, and every call of the SPS driver returns.   *)
C12_LineSearchTerminates ==
    /\ [](C12_Grounds)
    /\ (pc = "sps_search") ~> (pc = "sps_search" /\ ~(curr_obj < accept))
    /\ InSps ~> (pc = "done" /\ ret = best_obj)

\* a call has returned at the iteration limit and its last line search had
\* backtracked
C12_Witness ==
    pc = "done" /\ upperbound = 0 /\ ~is_opt /\ itr = MaxItr /\ tau > 0

====
